---------------------------- MODULE Spec2Model ----------------------------
(***************************************************************************)
(* The shared-memory block ring of package shm (ReadWriteCloser): one      *)
(* writer endpoint and one reader endpoint mapped on the same ring.  Every *)
(* atomic load, store, compare-and-swap and semaphore operation of the     *)
(* four buffer operations is one step of the thread that executes it.      *)
(* Plain accesses to a block the thread holds a lease on (Size, Flags,     *)
(* payload), loads of the endpoint's own closed flag and a semaphore post  *)
(* (a left mover) are folded into the neighbouring step of the same thread.*)
(***************************************************************************)
EXTENDS Integers, Sequences, FiniteSets

(* ------------------------------ bounds -------------------------------- *)

\* largest ring a run is created with (rings of 2 .. MaxBlockCount blocks)
MaxBlockCount == 3
\* payload capacity of a block, in bytes
BlockSize == 1
\* successful GetWriteBuffer acquisitions in one run
MaxWrites == 3
\* threads that call Close on one endpoint
NumClosers == 2

(* ----------------------------- constants ------------------------------ *)

eofFlagMask == 1

NoBlock == 0 - 1

VARIABLES
    BlockCount,     \* sharedMem.BlockCount
    ReadStart,      \* sharedMem.ReadStart
    ReadEnd,        \* sharedMem.ReadEnd
    WriteStart,     \* sharedMem.WriteStart
    WriteEnd,       \* sharedMem.WriteEnd
    SemAvail,       \* tokens of sharedMem.SemAvail
    SemSignal,      \* tokens of sharedMem.SemSignal
    blocks,         \* the sharedBlock array: Size, DoneRead, DoneWrite, Flags, Data
    closed,         \* rw.closed of the writer ("w") and of the reader ("r") endpoint
    unmaps,         \* unix.Munmap calls made on each endpoint's mapping
    cpc,            \* the threads calling Close on each endpoint: how many are at each place
    \* the writer thread: place, stream operation in progress, blockIndex, buf,
    \* n, the source's error, leases its client holds, last return
    wpc, wop, wIdx, wBuf, wN, wErr, wLeases, wRet,
    \* the reader thread: place, stream operation in progress, blockIndex, buf,
    \* n, the sink's error, isEOF, leases its client holds, last return
    rpc, rop, rIdx, rBuf, rN, rErr, rEof, rLeases, rRet,
    \* history variables
    nAcq,           \* write leases handed out so far
    nRel,           \* blocks ReadEnd has advanced past so far
    tag,            \* serial number of the last write lease on each block
    published,      \* serial numbers in the order WriteEnd advanced past them
    delivered,      \* serial numbers in the order GetReadBuffer returned them
    pubSize,        \* len(buf.Data) of the SendWriteBuffer call that last released each block
    nextByte,       \* the next byte value a stream source produces
    writeLog,       \* the bytes Write and ReadFrom accepted, in order
    readLog,        \* the bytes Read and WriteTo returned, in order
    srcLog,         \* per block filled by Write or ReadFrom, in order: "Write", or the
                    \* error r.Read returned with the block's bytes
    eofLog          \* per block consumed by Read or WriteTo, in order: isEOF

ring == <<BlockCount, ReadStart, ReadEnd, WriteStart, WriteEnd>>
sems == <<SemAvail, SemSignal>>
shared == <<ring, sems, blocks>>
ends == <<closed, unmaps, cpc>>
wvars == <<wpc, wop, wIdx, wBuf, wN, wErr, wLeases, wRet>>
rvars == <<rpc, rop, rIdx, rBuf, rN, rErr, rEof, rLeases, rRet>>
ringHist == <<nAcq, nRel, tag, published, delivered, pubSize>>
logs == <<nextByte, writeLog, readLog, srcLog, eofLog>>
vars == <<shared, ends, wvars, rvars, ringHist, logs>>

Blocks == 0 .. (BlockCount - 1)

\* sharedBlock.Next and sharedBlock.Prev: the circular list set up at creation
BlockNext(i) == (i + 1) % BlockCount
BlockPrev(i) == (i + BlockCount - 1) % BlockCount

\* what a call returned: the operation, its error, its count (n, or len(Data) of
\* the Buffer) and the Buffer's block
Ret(op, err, n, b) == [op |-> op, err |-> err, n |-> n, block |-> b]
NoRet == Ret("none", "nil", 0, NoBlock)

\* a Buffer handle: block, write, and the length and capacity of Data
Buffer(b, w, len, c) == [block |-> b, write |-> w, len |-> len, cap |-> c]
NoBuffer == Buffer(NoBlock, FALSE, 0, 0)

Min(a, b) == IF a < b THEN a ELSE b

\* copy(dst, src): the first min(len) elements of dst overwritten
Copy(dst, src) ==
    [k \in 1 .. Len(dst) |-> IF k <= Len(src) THEN src[k] ELSE dst[k]]

\* the bytes a source hands over: len fresh values starting at first
Fresh(first, len) == [k \in 1 .. len |-> first + k - 1]

\* a faulty flag update: the EOF bit is left as it was
KeepFlags(f) == f

\* bit 0 of Flags[0] is the EOF bit
HasEof(f) == (f \div eofFlagMask) % 2 = 1
SetEof(f) == IF HasEof(f) THEN f ELSE f + eofFlagMask
ClearEof(f) == IF HasEof(f) THEN f - eofFlagMask ELSE f

InitRing(bc) ==
    /\ BlockCount = bc
    /\ ReadStart = 0 /\ ReadEnd = 0 /\ WriteStart = 0 /\ WriteEnd = 0
    /\ SemAvail = 0 /\ SemSignal = 0
    /\ blocks = [i \in 0 .. (bc - 1) |->
                    [Size |-> 0, DoneRead |-> 0, DoneWrite |-> 0, Flags |-> 0,
                     Data |-> [k \in 1 .. BlockSize |-> 0]]]
    /\ tag = [i \in 0 .. (bc - 1) |-> 0]
    /\ pubSize = [i \in 0 .. (bc - 1) |-> 0]

InitThreads ==
    /\ closed = [e \in {"w", "r"} |-> 0]
    /\ unmaps = [e \in {"w", "r"} |-> 0]
    /\ wpc = "idle" /\ wop = "none" /\ wIdx = 0 /\ wBuf = NoBuffer
    /\ wN = 0 /\ wErr = "nil" /\ wLeases = {} /\ wRet = NoRet
    /\ rpc = "idle" /\ rop = "none" /\ rIdx = 0 /\ rBuf = NoBuffer
    /\ rN = 0 /\ rErr = "nil" /\ rEof = FALSE /\ rLeases = {} /\ rRet = NoRet
    /\ nAcq = 0 /\ nRel = 0
    /\ published = <<>> /\ delivered = <<>>
    /\ nextByte = 1 /\ writeLog = <<>> /\ readLog = <<>>
    /\ srcLog = <<>> /\ eofLog = <<>>

\* k threads are about to call Close on endpoint e, none on the other endpoint
InitClosers(e, k) ==
    cpc = [x \in {"w", "r"} |->
            [idle |-> IF x = e THEN k ELSE 0, swapped |-> 0, nil |-> 0, unmapped |-> 0]]

Init ==
    /\ \E bc \in 2 .. MaxBlockCount : InitRing(bc)
    /\ InitThreads
    /\ InitClosers("w", 0)


(* ------------------------- the writer thread -------------------------- *)

\* the writer thread's locals after a step
W(pc, op, idx, buf, n, err, ret) ==
    /\ wpc' = pc /\ wop' = op /\ wIdx' = idx /\ wBuf' = buf
    /\ wN' = n /\ wErr' = err /\ wRet' = ret

WGoto(pc) == W(pc, wop, wIdx, wBuf, wN, wErr, wRet)

\* a call of the writer's client returns: the call's locals go out of scope
WriterReturns(op, err, n, b) ==
    W("idle", "none", 0, NoBuffer, 0, "nil", Ret(op, err, n, b))

\* a faulty full-ring test: the writer never finds the ring full
RingNeverFull(blockIndex, readEnd) == FALSE

\* the full-ring test of GetWriteBuffer
RingFull(blockIndex, readEnd) == BlockNext(blockIndex) = readEnd

\* a faulty Buffer of GetWriteBuffer: built on the block after the one acquired
WriteLeaseNextBlock(b) == Buffer(BlockNext(b), TRUE, 0, BlockSize)

\* a faulty Buffer of GetWriteBuffer: Data keeps the block's previous length
WriteLeaseStale(b) == Buffer(b, TRUE, blocks[b].Size, BlockSize)

\* the Buffer GetWriteBuffer returns on block b: Data is data[:0:BlockSize]
WriteLease(b) == Buffer(b, TRUE, 0, BlockSize)

\* a faulty wake-up test: SendWriteBuffer never posts SemSignal
NeverWakeReader(blockIndex, readStart) == FALSE

\* the wake-up test of SendWriteBuffer after it advanced WriteEnd from blockIndex
WakeReader(blockIndex, readStart) == blockIndex = readStart

\* a faulty direction check: SendWriteBuffer refuses no handle
WriterTakesAny(buf) == FALSE

\* is buf refused by SendWriteBuffer
NotWriteBuffer(buf) == ~buf.write

\* GetWriteBuffer has returned err to operation op, whose count is n
WriterGetFails(op, n, err) ==
    IF op = "Write" THEN WriterReturns("Write", err, 0, NoBlock)
    ELSE IF op = "ReadFrom" THEN WriterReturns("ReadFrom", err, n, NoBlock)
    ELSE WriterReturns("GetWriteBuffer", err, 0, NoBlock)

\* a faulty entry of GetWriteBuffer: the closed flag is not looked at
GetWriteEntryUnchecked(op, n) == W("wLoad", op, 0, NoBuffer, n, "nil", NoRet)

\* GetWriteBuffer, entry, called by operation op whose count is n: the closed check
GetWriteEntry(op, n) ==
    IF closed["w"] # 0
    THEN WriterGetFails(op, n, "ClosedPipe")
    ELSE W("wLoad", op, 0, NoBuffer, n, "nil", NoRet)

\* SendWriteBuffer has returned (len, err) to operation op, whose count is n and
\* whose source returned srcErr
WriterSendReturns(op, len, err, n, srcErr) ==
    IF op = "Write" THEN WriterReturns("Write", err, n, NoBlock)
    ELSE IF op = "ReadFrom"
    THEN IF err # "nil" THEN WriterReturns("ReadFrom", srcErr, n, NoBlock)
         ELSE IF srcErr = "EOF" THEN WriterReturns("ReadFrom", "nil", n, NoBlock)
         ELSE IF srcErr # "nil" THEN WriterReturns("ReadFrom", srcErr, n, NoBlock)
         ELSE GetWriteEntry("ReadFrom", n)
    ELSE WriterReturns("SendWriteBuffer", err, len, NoBlock)

\* SendWriteBuffer(buf), entry, called by operation op that left the blocks as
\* blks: the closed check, the direction check, the store of block.Size and the
\* store of DoneWrite
SendWriteEntry(op, buf, blks, n, srcErr) ==
    IF closed["w"] # 0
    THEN /\ WriterSendReturns(op, 0, "ClosedPipe", n, srcErr)
         /\ blocks' = blks
         /\ UNCHANGED <<wLeases, pubSize>>
    ELSE IF NotWriteBuffer(buf)
    THEN /\ WriterSendReturns(op, 0, "InvalidBuffer", n, srcErr)
         /\ blocks' = blks
         /\ UNCHANGED <<wLeases, pubSize>>
    ELSE /\ blocks' = [blks EXCEPT ![buf.block].Size = buf.len,
                                    ![buf.block].DoneWrite = 1]
         /\ W("wLoadEnd", op, 0, buf, n, srcErr, NoRet)
         /\ wLeases' = {h \in wLeases : h.block # buf.block}
         /\ pubSize' = [pubSize EXCEPT ![buf.block] = buf.len]

\* the client calls GetWriteBuffer
wGetCall ==
    /\ wpc = "idle"
    /\ closed["w"] # 0 \/ nAcq < MaxWrites
    /\ GetWriteEntry("none", 0)
    /\ UNCHANGED <<shared, ends, wLeases, rvars, ringHist, logs>>

\* GetWriteBuffer, loop head: load WriteStart and validate it
wLoad ==
    /\ wpc = "wLoad"
    /\ IF WriteStart > BlockCount
       THEN WriterGetFails(wop, wN, "InvalidSharedMemory")
       ELSE W("wChk", wop, WriteStart, wBuf, wN, wErr, wRet)
    /\ UNCHANGED <<shared, ends, wLeases, rvars, ringHist, logs>>

\* GetWriteBuffer: load ReadEnd and test for a full ring
wChk ==
    /\ wpc = "wChk"
    /\ WGoto(IF RingFull(wIdx, ReadEnd) THEN "wWait" ELSE "wCAS")
    /\ UNCHANGED <<shared, ends, wLeases, rvars, ringHist, logs>>

\* GetWriteBuffer: SemAvail.Wait(), then restart the loop
wWait ==
    /\ wpc = "wWait"
    /\ SemAvail > 0
    /\ SemAvail' = SemAvail - 1
    /\ WGoto("wLoad")
    /\ UNCHANGED <<ring, SemSignal, blocks, ends, wLeases, rvars, ringHist, logs>>

\* GetWriteBuffer: CAS(WriteStart, blockIndex, block.Next); on success the Buffer
\* is returned, to the client or to Write or ReadFrom
wCAS ==
    /\ wpc = "wCAS"
    /\ IF WriteStart = wIdx
       THEN /\ WriteStart' = BlockNext(wIdx)
            /\ nAcq' = nAcq + 1
            /\ tag' = [tag EXCEPT ![wIdx] = nAcq + 1]
            /\ IF wop = "none"
               THEN /\ wLeases' = wLeases \cup {WriteLease(wIdx)}
                    /\ WriterReturns("GetWriteBuffer", "nil", WriteLease(wIdx).len, wIdx)
               ELSE /\ W(IF wop = "Write" THEN "wFill" ELSE "wSrc",
                         wop, wIdx, WriteLease(wIdx), wN, wErr, wRet)
                    /\ UNCHANGED wLeases
       ELSE /\ WGoto("wLoad")
            /\ UNCHANGED <<WriteStart, wLeases, nAcq, tag>>
    /\ UNCHANGED <<BlockCount, ReadStart, ReadEnd, WriteEnd, sems, blocks, ends, rvars,
                   nRel, published, delivered, pubSize, logs>>

\* the handles the writer's client passes to SendWriteBuffer: a write lease it
\* holds, with Data left empty or resliced to its capacity
WriterSendable ==
    UNION {{Buffer(h.block, TRUE, l, h.cap) : l \in {0, h.cap}} : h \in wLeases}

\* the client calls SendWriteBuffer(buf) on a write lease
wSendCall ==
    /\ wpc = "idle"
    /\ \E buf \in WriterSendable : SendWriteEntry("none", buf, blocks, 0, "nil")
    /\ UNCHANGED <<ring, sems, ends, rvars, nAcq, nRel, tag, published, delivered, logs>>

\* the client calls SendWriteBuffer(buf) on a read lease
wSendWrong ==
    /\ wpc = "idle"
    /\ \E b \in Blocks :
          SendWriteEntry("none", Buffer(b, FALSE, 0, BlockSize), blocks, 0, "nil")
    /\ UNCHANGED <<ring, sems, ends, rvars, nAcq, nRel, tag, published, delivered, logs>>

\* SendWriteBuffer, loop head: load WriteEnd and validate it
wLoadEnd ==
    /\ wpc = "wLoadEnd"
    /\ IF WriteEnd > BlockCount
       THEN WriterSendReturns(wop, wBuf.len, "InvalidSharedMemory", wN, wErr)
       ELSE W("wCASDone", wop, WriteEnd, wBuf, wN, wErr, wRet)
    /\ UNCHANGED <<shared, ends, wLeases, rvars, ringHist, logs>>

\* a release loop that takes every block for finished
DoneAlwaysSwaps(flag) == TRUE

\* does CAS(flag, 1, 0) on a DoneWrite or DoneRead flag swap
DoneSwaps(flag) == flag = 1

\* SendWriteBuffer: CAS(block.DoneWrite, 1, 0); return when the block is not finished
wCASDone ==
    /\ wpc = "wCASDone"
    /\ IF DoneSwaps(blocks[wIdx].DoneWrite)
       THEN /\ blocks' = [blocks EXCEPT ![wIdx].DoneWrite = 0]
            /\ WGoto("wAdv")
       ELSE /\ WriterSendReturns(wop, wBuf.len, "nil", wN, wErr)
            /\ UNCHANGED blocks
    /\ UNCHANGED <<ring, sems, ends, wLeases, rvars, ringHist, logs>>

\* SendWriteBuffer: CAS(WriteEnd, blockIndex, block.Next), its result ignored
wAdv ==
    /\ wpc = "wAdv"
    /\ IF WriteEnd = wIdx
       THEN /\ WriteEnd' = BlockNext(wIdx)
            /\ published' = Append(published, tag[wIdx])
       ELSE UNCHANGED <<WriteEnd, published>>
    /\ WGoto("wPost")
    /\ UNCHANGED <<BlockCount, ReadStart, ReadEnd, WriteStart, sems, blocks, ends,
                   wLeases, rvars, nAcq, nRel, tag, delivered, pubSize, logs>>

\* SendWriteBuffer: load ReadStart and post SemSignal when the reader may be parked
wPost ==
    /\ wpc = "wPost"
    /\ SemSignal' = IF WakeReader(wIdx, ReadStart) THEN SemSignal + 1 ELSE SemSignal
    /\ WGoto("wLoadEnd")
    /\ UNCHANGED <<ring, SemAvail, blocks, ends, wLeases, rvars, ringHist, logs>>

\* the client calls Write(p)
wWriteCall ==
    /\ wpc = "idle"
    /\ closed["w"] # 0 \/ nAcq < MaxWrites
    /\ GetWriteEntry("Write", 0)
    /\ UNCHANGED <<shared, ends, wLeases, rvars, ringHist, logs>>

\* Write: n = copy(buf.Data[:cap(buf.Data)], p), the EOF bit set, and the entry
\* of SendWriteBuffer; p is a payload of plen fresh bytes
wFillWith(plen) ==
    /\ wpc = "wFill"
    /\ LET p == Fresh(nextByte, plen)
           n == Min(wBuf.cap, plen)
           b == wBuf.block
           blks == [blocks EXCEPT ![b].Data = Copy(@, p),
                                  ![b].Flags = SetEof(@)]
       IN  /\ SendWriteEntry("Write", [wBuf EXCEPT !.len = n], blks, n, "nil")
           /\ nextByte' = nextByte + n
           /\ writeLog' = writeLog \o SubSeq(p, 1, n)
           /\ srcLog' = Append(srcLog, "Write")
    /\ UNCHANGED <<ring, sems, ends, rvars, nAcq, nRel, tag, published, delivered,
                   readLog, eofLog>>

\* Write(p), for p an empty payload, a payload that fills a block, or one that
\* is a byte longer
wFill == \E plen \in {0, BlockSize, BlockSize + 1} : wFillWith(plen)

\* the client calls ReadFrom(r)
wReadFromCall ==
    /\ wpc = "idle"
    /\ closed["w"] # 0 \/ nAcq < MaxWrites
    /\ GetWriteEntry("ReadFrom", 0)
    /\ UNCHANGED <<shared, ends, wLeases, rvars, ringHist, logs>>

\* what r.Read may return: a full block and nil, a full block or nothing with
\* EOF, or nothing and an error of the source; the source ends once MaxWrites
\* blocks were acquired
SourceReads ==
    {rd \in {<<BlockSize, "nil">>, <<BlockSize, "EOF">>, <<0, "EOF">>, <<0, "ErrSource">>} :
        nAcq >= MaxWrites => rd[2] # "nil"}

\* ReadFrom: nn, err := r.Read(buf.Data[:cap(buf.Data)]), the EOF bit set or
\* cleared, and the entry of SendWriteBuffer
wSrc ==
    /\ wpc = "wSrc"
    /\ \E rd \in SourceReads :
          LET nn == rd[1]
              err == rd[2]
              p == Fresh(nextByte, nn)
              b == wBuf.block
              blks == [blocks EXCEPT ![b].Data = Copy(@, p),
                                     ![b].Flags = IF err = "EOF" THEN SetEof(@)
                                                                 ELSE ClearEof(@)]
          IN  /\ SendWriteEntry("ReadFrom", [wBuf EXCEPT !.len = nn], blks, wN + nn, err)
              /\ nextByte' = nextByte + nn
              /\ writeLog' = writeLog \o p
              /\ srcLog' = Append(srcLog, err)
    /\ UNCHANGED <<ring, sems, ends, rvars, nAcq, nRel, tag, published, delivered,
                   readLog, eofLog>>


(* ------------------------- the reader thread -------------------------- *)

\* the reader thread's locals after a step
R(pc, op, idx, buf, n, err, eof, ret) ==
    /\ rpc' = pc /\ rop' = op /\ rIdx' = idx /\ rBuf' = buf
    /\ rN' = n /\ rErr' = err /\ rEof' = eof /\ rRet' = ret

RGoto(pc) == R(pc, rop, rIdx, rBuf, rN, rErr, rEof, rRet)

\* a call of the reader's client returns: the call's locals go out of scope
ReaderReturns(op, err, n, b) ==
    R("idle", "none", 0, NoBuffer, 0, "nil", FALSE, Ret(op, err, n, b))

\* a faulty empty-ring test: the reader never finds the ring empty
RingNeverEmpty(blockIndex, writeEnd) == FALSE

\* the empty-ring test of GetReadBuffer
RingEmpty(blockIndex, writeEnd) == blockIndex = writeEnd

\* the Buffer GetReadBuffer returns on block b: Data is data[:block.Size:BlockSize]
ReadLease(b) == Buffer(b, FALSE, blocks[b].Size, BlockSize)

\* a faulty wake-up test: SendReadBuffer never posts SemAvail
NeverWakeWriter(blockIndex, writeStart) == FALSE

\* the wake-up test of SendReadBuffer after it advanced ReadEnd from blockIndex
WakeWriter(blockIndex, writeStart) == BlockPrev(blockIndex) = writeStart

\* is buf refused by SendReadBuffer
NotReadBuffer(buf) == buf.write

\* GetReadBuffer has returned err to operation op, whose count is n
ReaderGetFails(op, n, err) ==
    IF op = "Read" THEN ReaderReturns("Read", err, 0, NoBlock)
    ELSE IF op = "WriteTo" THEN ReaderReturns("WriteTo", err, n, NoBlock)
    ELSE ReaderReturns("GetReadBuffer", err, 0, NoBlock)

\* GetReadBuffer, entry, called by operation op whose count is n: the closed check
GetReadEntry(op, n) ==
    IF closed["r"] # 0
    THEN ReaderGetFails(op, n, "ClosedPipe")
    ELSE R("rLoad", op, 0, NoBuffer, n, "nil", FALSE, NoRet)

\* SendReadBuffer has returned err to operation op, whose count is n, whose sink
\* returned sinkErr and whose block had the EOF bit isEOF
ReaderSendReturns(op, err, n, sinkErr, isEOF) ==
    IF op = "Read"
    THEN IF err # "nil" THEN ReaderReturns("Read", err, n, NoBlock)
         ELSE IF isEOF THEN ReaderReturns("Read", "EOF", n, NoBlock)
         ELSE ReaderReturns("Read", "nil", n, NoBlock)
    ELSE IF op = "WriteTo"
    THEN IF err # "nil" THEN ReaderReturns("WriteTo", err, n, NoBlock)
         ELSE IF sinkErr # "nil" \/ isEOF THEN ReaderReturns("WriteTo", sinkErr, n, NoBlock)
         ELSE GetReadEntry("WriteTo", n)
    ELSE ReaderReturns("SendReadBuffer", err, 0, NoBlock)

\* SendReadBuffer(buf), entry, called by operation op: the closed check, the
\* direction check and the store of DoneRead
SendReadEntry(op, buf, n, sinkErr, isEOF) ==
    IF closed["r"] # 0
    THEN /\ ReaderSendReturns(op, "ClosedPipe", n, sinkErr, isEOF)
         /\ UNCHANGED <<blocks, rLeases>>
    ELSE IF NotReadBuffer(buf)
    THEN /\ ReaderSendReturns(op, "InvalidBuffer", n, sinkErr, isEOF)
         /\ UNCHANGED <<blocks, rLeases>>
    ELSE /\ blocks' = [blocks EXCEPT ![buf.block].DoneRead = 1]
         /\ R("rLoadEnd", op, 0, buf, n, sinkErr, isEOF, NoRet)
         /\ rLeases' = {h \in rLeases : h.block # buf.block}

\* the client calls GetReadBuffer
rGetCall ==
    /\ rpc = "idle"
    /\ GetReadEntry("none", 0)
    /\ UNCHANGED <<shared, ends, rLeases, wvars, ringHist, logs>>

\* GetReadBuffer, loop head: load ReadStart and validate it
rLoad ==
    /\ rpc = "rLoad"
    /\ IF ReadStart > BlockCount
       THEN ReaderGetFails(rop, rN, "InvalidSharedMemory")
       ELSE R("rChk", rop, ReadStart, rBuf, rN, rErr, rEof, rRet)
    /\ UNCHANGED <<shared, ends, rLeases, wvars, ringHist, logs>>

\* GetReadBuffer: load WriteEnd and test for an empty ring
rChk ==
    /\ rpc = "rChk"
    /\ RGoto(IF RingEmpty(rIdx, WriteEnd) THEN "rWait" ELSE "rCAS")
    /\ UNCHANGED <<shared, ends, rLeases, wvars, ringHist, logs>>

\* GetReadBuffer: SemSignal.Wait(), then restart the loop
rWait ==
    /\ rpc = "rWait"
    /\ SemSignal > 0
    /\ SemSignal' = SemSignal - 1
    /\ RGoto("rLoad")
    /\ UNCHANGED <<ring, SemAvail, blocks, ends, rLeases, wvars, ringHist, logs>>

\* GetReadBuffer: CAS(ReadStart, blockIndex, block.Next); on success the Buffer
\* is returned, to the client or to Read or WriteTo
rCAS ==
    /\ rpc = "rCAS"
    /\ IF ReadStart = rIdx
       THEN /\ ReadStart' = BlockNext(rIdx)
            /\ delivered' = Append(delivered, tag[rIdx])
            /\ IF rop = "none"
               THEN /\ rLeases' = rLeases \cup {ReadLease(rIdx)}
                    /\ ReaderReturns("GetReadBuffer", "nil", ReadLease(rIdx).len, rIdx)
               ELSE /\ R(IF rop = "Read" THEN "rCopy" ELSE "rSink",
                         rop, rIdx, ReadLease(rIdx), rN, rErr, rEof, rRet)
                    /\ UNCHANGED rLeases
       ELSE /\ RGoto("rLoad")
            /\ UNCHANGED <<ReadStart, rLeases, delivered>>
    /\ UNCHANGED <<BlockCount, ReadEnd, WriteStart, WriteEnd, sems, blocks, ends, wvars,
                   nAcq, nRel, tag, published, pubSize, logs>>

\* the client calls SendReadBuffer(buf) on a read lease it holds
rSendCall ==
    /\ rpc = "idle"
    /\ \E buf \in rLeases : SendReadEntry("none", buf, 0, "nil", FALSE)
    /\ UNCHANGED <<ring, sems, ends, wvars, ringHist, logs>>

\* the client calls SendReadBuffer(buf) on a write lease
rSendWrong ==
    /\ rpc = "idle"
    /\ \E b \in Blocks :
          SendReadEntry("none", Buffer(b, TRUE, 0, BlockSize), 0, "nil", FALSE)
    /\ UNCHANGED <<ring, sems, ends, wvars, ringHist, logs>>

\* SendReadBuffer, loop head: load ReadEnd and validate it
rLoadEnd ==
    /\ rpc = "rLoadEnd"
    /\ IF ReadEnd > BlockCount
       THEN ReaderSendReturns(rop, "InvalidSharedMemory", rN, rErr, rEof)
       ELSE R("rCASDone", rop, ReadEnd, rBuf, rN, rErr, rEof, rRet)
    /\ UNCHANGED <<shared, ends, rLeases, wvars, ringHist, logs>>

\* SendReadBuffer: CAS(block.DoneRead, 1, 0); return when the block is not finished
rCASDone ==
    /\ rpc = "rCASDone"
    /\ IF DoneSwaps(blocks[rIdx].DoneRead)
       THEN /\ blocks' = [blocks EXCEPT ![rIdx].DoneRead = 0]
            /\ RGoto("rAdv")
       ELSE /\ ReaderSendReturns(rop, "nil", rN, rErr, rEof)
            /\ UNCHANGED blocks
    /\ UNCHANGED <<ring, sems, ends, rLeases, wvars, ringHist, logs>>

\* SendReadBuffer: CAS(ReadEnd, blockIndex, block.Next), its result ignored
rAdv ==
    /\ rpc = "rAdv"
    /\ IF ReadEnd = rIdx
       THEN /\ ReadEnd' = BlockNext(rIdx)
            /\ nRel' = nRel + 1
       ELSE UNCHANGED <<ReadEnd, nRel>>
    /\ RGoto("rPost")
    /\ UNCHANGED <<BlockCount, ReadStart, WriteStart, WriteEnd, sems, blocks, ends,
                   rLeases, wvars, nAcq, tag, published, delivered, pubSize, logs>>

\* SendReadBuffer: load WriteStart and post SemAvail when the writer may be parked
rPost ==
    /\ rpc = "rPost"
    /\ SemAvail' = IF WakeWriter(rIdx, WriteStart) THEN SemAvail + 1 ELSE SemAvail
    /\ RGoto("rLoadEnd")
    /\ UNCHANGED <<ring, SemSignal, blocks, ends, rLeases, wvars, ringHist, logs>>

\* the client calls Read(p)
rReadCall ==
    /\ rpc = "idle"
    /\ GetReadEntry("Read", 0)
    /\ UNCHANGED <<shared, ends, rLeases, wvars, ringHist, logs>>

\* Read: n = copy(p, buf.Data), isEOF, and the entry of SendReadBuffer; p is an
\* empty buffer or a buffer of BlockSize bytes
rCopy ==
    /\ rpc = "rCopy"
    /\ \E plen \in {0, BlockSize} :
          LET n == Min(plen, rBuf.len)
              blk == blocks[rBuf.block]
          IN  /\ SendReadEntry("Read", rBuf, n, "nil", HasEof(blk.Flags))
              /\ readLog' = readLog \o SubSeq(blk.Data, 1, n)
              /\ eofLog' = Append(eofLog, HasEof(blk.Flags))
    /\ UNCHANGED <<ring, sems, ends, wvars, ringHist, nextByte, writeLog, srcLog>>

\* the client calls WriteTo(w)
rWriteToCall ==
    /\ rpc = "idle"
    /\ GetReadEntry("WriteTo", 0)
    /\ UNCHANGED <<shared, ends, rLeases, wvars, ringHist, logs>>

\* what w.Write(data) may return for len bytes: all of them, or fewer and an error
SinkWrites(len) ==
    {<<len, "nil">>} \cup {<<k, "ErrSink">> : k \in 0 .. len}

\* WriteTo: nn, err := w.Write(buf.Data), isEOF, and the entry of SendReadBuffer
rSink ==
    /\ rpc = "rSink"
    /\ \E wr \in SinkWrites(rBuf.len) :
          LET blk == blocks[rBuf.block]
          IN  /\ SendReadEntry("WriteTo", rBuf, rN + wr[1], wr[2], HasEof(blk.Flags))
              /\ readLog' = readLog \o SubSeq(blk.Data, 1, wr[1])
              /\ eofLog' = Append(eofLog, HasEof(blk.Flags))
    /\ UNCHANGED <<ring, sems, ends, wvars, ringHist, nextByte, writeLog, srcLog>>

(* ------------------------------- Close -------------------------------- *)

\* a faulty swap: a plain store that always reports success
CloseAlwaysSwaps(old) == TRUE

\* CompareAndSwapUint32(&rw.closed, 0, 1) succeeds on the value old
CloseSwaps(old) == old = 0

\* Close, called on endpoint e by one of the threads that have not called it yet,
\* while the endpoint's own thread is in no operation: the compare-and-swap of
\* closed, and the return of nil when it fails
cClose(e) ==
    /\ cpc[e].idle > 0
    /\ IF e = "w" THEN wpc = "idle" ELSE rpc = "idle"
    /\ IF CloseSwaps(closed[e])
       THEN /\ closed' = [closed EXCEPT ![e] = 1]
            /\ cpc' = [cpc EXCEPT ![e].idle = @ - 1, ![e].swapped = @ + 1]
       ELSE /\ cpc' = [cpc EXCEPT ![e].idle = @ - 1, ![e].nil = @ + 1]
            /\ UNCHANGED closed
    /\ UNCHANGED <<shared, unmaps, wvars, rvars, ringHist, logs>>

\* Close, after a successful swap: unix.Munmap(rw.data) and the return
cUnmap(e) ==
    /\ cpc[e].swapped > 0
    /\ unmaps' = [unmaps EXCEPT ![e] = @ + 1]
    /\ cpc' = [cpc EXCEPT ![e].swapped = @ - 1, ![e].unmapped = @ + 1]
    /\ UNCHANGED <<shared, closed, wvars, rvars, ringHist, logs>>

(* --------------------------- specifications --------------------------- *)

WriterSteps == wLoad \/ wChk \/ wWait \/ wCAS \/ wLoadEnd \/ wCASDone \/ wAdv \/ wPost
ReaderSteps == rLoad \/ rChk \/ rWait \/ rCAS \/ rLoadEnd \/ rCASDone \/ rAdv \/ rPost

\* the buffer interface: each client acquires and releases leases in any order
Next ==
    \/ wGetCall \/ wSendCall \/ WriterSteps
    \/ rGetCall \/ rSendCall \/ ReaderSteps

Spec == Init /\ [][Next]_vars

WriterThread == wGetCall \/ wSendCall \/ WriterSteps
ReaderThread == rGetCall \/ rSendCall \/ ReaderSteps

\* the buffer interface with both threads scheduled fairly
SpecLive == Spec /\ WF_vars(WriterThread) /\ WF_vars(ReaderThread)

\* the stream interface: Write on one side, Read on the other
NextStream ==
    \/ wWriteCall \/ wFill \/ WriterSteps
    \/ rReadCall \/ rCopy \/ ReaderSteps

SpecStream == Init /\ [][NextStream]_vars

\* the buffer interface, handles passed to the wrong release, Close called on
\* either endpoint, and every operation called on a closed endpoint
NextClose ==
    \/ Next
    \/ wSendWrong \/ rSendWrong
    \/ \E e \in {"w", "r"} : cClose(e) \/ cUnmap(e)
    \/ closed["w"] # 0 /\ (wWriteCall \/ wReadFromCall)
    \/ closed["r"] # 0 /\ (rReadCall \/ rWriteToCall)

\* the minimum ring, and the endpoint that is closed
InitClose ==
    /\ InitRing(2)
    /\ InitThreads
    /\ \E e \in {"w", "r"} : InitClosers(e, NumClosers)

SpecClose == InitClose /\ [][NextClose]_vars

\* the stream interface: ReadFrom on one side, Read on the other
NextFrom ==
    \/ wReadFromCall \/ wSrc \/ WriterSteps
    \/ rReadCall \/ rCopy \/ ReaderSteps

\* the minimum ring: its blocks are used again within MaxWrites acquisitions
InitFrom ==
    /\ InitRing(2)
    /\ InitThreads
    /\ InitClosers("w", 0)

SpecFrom == InitFrom /\ [][NextFrom]_vars

\* Close, called on the writer endpoint by another thread while ReadFrom is in
\* r.Read, between GetWriteBuffer and SendWriteBuffer: the compare-and-swap of
\* closed
cCloseInReadFrom ==
    /\ cpc["w"].idle > 0
    /\ wpc = "wSrc"
    /\ IF CloseSwaps(closed["w"])
       THEN /\ closed' = [closed EXCEPT !["w"] = 1]
            /\ cpc' = [cpc EXCEPT !["w"].idle = @ - 1, !["w"].swapped = @ + 1]
       ELSE /\ cpc' = [cpc EXCEPT !["w"].idle = @ - 1, !["w"].nil = @ + 1]
            /\ UNCHANGED closed
    /\ UNCHANGED <<shared, unmaps, wvars, rvars, ringHist, logs>>

\* the stream interface with Close called on the writer endpoint, also while
\* ReadFrom is in progress; the mapping is removed once ReadFrom has left r.Read
NextFromClose ==
    \/ NextFrom
    \/ cClose("w") \/ cCloseInReadFrom
    \/ wpc # "wSrc" /\ cUnmap("w")

InitFromClose ==
    /\ InitRing(2)
    /\ InitThreads
    /\ InitClosers("w", NumClosers)

SpecFromClose == InitFromClose /\ [][NextFromClose]_vars

(* ---------------------- a peer that corrupts the ring ------------------- *)

\* the values a pointer of the shared header holds after a corrupt peer stored
\* into it: a block index, BlockCount or BlockCount + 1
PointerValues(bc) == 0 .. (bc + 1)

\* the minimum ring after a corrupt peer stored into its four pointers
InitCorrupt ==
    /\ \E bc \in {2} :
          /\ BlockCount = bc
          /\ ReadStart \in PointerValues(bc) /\ ReadEnd \in PointerValues(bc)
          /\ WriteStart \in PointerValues(bc) /\ WriteEnd \in PointerValues(bc)
          /\ blocks = [i \in 0 .. (bc - 1) |->
                          [Size |-> 0, DoneRead |-> 0, DoneWrite |-> 0, Flags |-> 0,
                           Data |-> [k \in 1 .. BlockSize |-> 0]]]
          /\ tag = [i \in 0 .. (bc - 1) |-> 0]
          /\ pubSize = [i \in 0 .. (bc - 1) |-> 0]
    /\ SemAvail = 0 /\ SemSignal = 0
    /\ InitThreads
    /\ InitClosers("w", 0)

\* blocks + blockIndex*fullBlockSize is used as a sharedBlock although
\* blockIndex is no slot of the array: the writer reads block.Next or swaps
\* block.DoneWrite outside the array, and what the call does from there on is
\* not defined
wOutside ==
    /\ wpc \in {"wChk", "wCASDone"}
    /\ wIdx \notin Blocks
    /\ WGoto("outside")
    /\ UNCHANGED <<shared, ends, wLeases, rvars, ringHist, logs>>

\* the same in the reader: block.Next is read in the compare-and-swap of
\* ReadStart, block.DoneRead is swapped in SendReadBuffer
rOutside ==
    /\ rpc \in {"rCAS", "rCASDone"}
    /\ rIdx \notin Blocks
    /\ RGoto("outside")
    /\ UNCHANGED <<shared, ends, rLeases, wvars, ringHist, logs>>

\* the buffer interface on a ring whose pointers a peer has corrupted; the
\* reader's client makes at most MaxWrites successful GetReadBuffer calls
NextCorrupt ==
    \/ wGetCall \/ wSendCall \/ wLoad \/ wWait \/ wLoadEnd
    \/ wIdx \in Blocks /\ (wChk \/ wCAS \/ wCASDone \/ wAdv \/ wPost)
    \/ wOutside
    \/ Len(delivered) < MaxWrites /\ rGetCall
    \/ rSendCall \/ rLoad \/ rChk \/ rWait \/ rLoadEnd
    \/ rIdx \in Blocks /\ (rCAS \/ rCASDone \/ rAdv \/ rPost)
    \/ rOutside

SpecCorrupt == InitCorrupt /\ [][NextCorrupt]_vars

(* ----------------------------- properties ----------------------------- *)

\* the steps in Next order from block a to block b
Dist(a, b) == (b - a + BlockCount) % BlockCount

\* is x one of the blocks from a up to but excluding b, walked in Next order
InArc(x, a, b) == Dist(a, x) < Dist(a, b)

IsPrefix(s, t) == Len(s) <= Len(t) /\ SubSeq(t, 1, Len(s)) = s

LeasedBlocks(leases) == {h.block : h \in leases}

\* the four states of a block, each read off the pointers that bound it
HeldByWriter(b) == InArc(b, WriteEnd, WriteStart)
Readable(b) == InArc(b, ReadStart, WriteEnd)
HeldByReader(b) == InArc(b, ReadEnd, ReadStart)
AvailableToWriter(b) == WriteStart = ReadEnd \/ InArc(b, WriteStart, ReadEnd)

\* how many of the four states block b is in
NumStates(b) ==
    (IF AvailableToWriter(b) THEN 1 ELSE 0) + (IF HeldByWriter(b) THEN 1 ELSE 0)
    + (IF Readable(b) THEN 1 ELSE 0) + (IF HeldByReader(b) THEN 1 ELSE 0)

\* C1: every block is in exactly one of the states AvailableToWriter,
\* HeldByWriter, Readable and HeldByReader; a block under an outstanding write
\* lease is HeldByWriter, a block under an outstanding read lease is
\* HeldByReader, and so no block is under a write lease and a read lease at once.
C1_ExactlyOneState ==
    /\ \A b \in Blocks : NumStates(b) = 1
    /\ \A h \in wLeases : HeldByWriter(h.block)
    /\ \A h \in rLeases : HeldByReader(h.block)
    /\ \A h \in wLeases : \A g \in rLeases : h.block # g.block

\* C1 happens: the writer's client and the reader's client hold a lease each,
\* on different blocks, and the remaining block is AvailableToWriter
C1_Witness ==
    /\ wLeases # {} /\ rLeases # {}
    /\ \E b \in Blocks : AvailableToWriter(b)

\* C2: the blocks GetReadBuffer returned are, in order, the first blocks WriteEnd
\* advanced past, and WriteEnd advances past the blocks in the order
\* GetWriteBuffer handed them out, whatever the order of the releases.
C2_Fifo ==
    /\ IsPrefix(delivered, published)
    /\ published = [k \in 1 .. Len(published) |-> k]
    /\ Len(published) <= nAcq

\* C2 happens: the writer released a later lease while it still holds the lease
\* on the block at WriteEnd, and the reader has been given a block already
C2_Witness ==
    /\ delivered # <<>>
    /\ WriteEnd \in LeasedBlocks(wLeases)
    /\ \E b \in Blocks : b # WriteEnd /\ blocks[b].DoneWrite = 1

\* every block the writer was given has been given to the reader, and no call
\* is in progress
Drained == wpc = "idle" /\ rpc = "idle" /\ Len(delivered) = nAcq

\* C3: the bytes the Reads returned, concatenated in order, are the bytes the
\* Writes accepted, concatenated in order: a prefix of them at any time, and all
\* of them once every block written has been read.
C3_StreamEquality ==
    /\ IsPrefix(readLog, writeLog)
    /\ Drained => readLog = writeLog

\* blocks the writer acquired and the reader has not released
InFlight == nAcq - nRel

\* C5: the blocks from ReadEnd up to but excluding WriteStart are the blocks
\* acquired and not yet released, there are at most BlockCount - 1 of them, and
\* the compare-and-swap of GetWriteBuffer that hands out a lease finds fewer.
C5_FullRingBound ==
    /\ InFlight = Dist(ReadEnd, WriteStart)
    /\ InFlight <= BlockCount - 1
    /\ (wpc = "wCAS" /\ WriteStart = wIdx) => InFlight < BlockCount - 1

\* C5 happens: on the ring of two blocks the writer is parked in GetWriteBuffer
\* behind one block in flight, after the reader has released a block
C5_Witness ==
    /\ BlockCount = 2
    /\ wpc = "wWait"
    /\ InFlight = BlockCount - 1
    /\ nRel >= 1

\* C7: an outstanding read lease has the length the SendWriteBuffer call that
\* last released its block was given, and an outstanding write lease has length
\* 0; both have capacity BlockSize.
C7_LeaseLengths ==
    /\ \A h \in rLeases : h.len = pubSize[h.block] /\ h.cap = BlockSize
    /\ \A h \in wLeases : h.len = 0 /\ h.cap = BlockSize

\* C7 happens: the reader holds a lease on a block released with a full
\* payload while the writer holds a lease as well
C7_Witness ==
    /\ \E h \in rLeases : h.len = BlockSize
    /\ wLeases # {}

\* the writer is parked on SemAvail and the reader on SemSignal, and neither
\* semaphore holds a token
BothParked ==
    /\ wpc = "wWait" /\ rpc = "rWait"
    /\ SemAvail = 0 /\ SemSignal = 0

\* each client releases every lease it acquires: no block stays leased for ever
ReleasesEveryLease ==
    \A b \in 0 .. (MaxBlockCount - 1) :
        /\ []<>(b \notin LeasedBlocks(wLeases))
        /\ []<>(b \notin LeasedBlocks(rLeases))

\* C4: with both threads scheduled fairly and no Close, when the clients release
\* every lease they acquire the writer and the reader are never both parked with
\* no token on either semaphore, and every block WriteEnd has advanced past is
\* eventually returned by GetReadBuffer.
C4_NoDeadlock ==
    /\ ReleasesEveryLease => []~BothParked
    /\ \A k \in 1 .. MaxWrites : (Len(published) >= k) ~> (Len(delivered) >= k)

\* C4 happens: both threads are parked and hold no lease, the writer behind a
\* full ring, and a token is pending that lets the reader go on
C4_Witness ==
    /\ wpc = "wWait" /\ rpc = "rWait"
    /\ wLeases = {} /\ rLeases = {}
    /\ SemSignal > 0
    /\ InFlight = BlockCount - 1

\* the reader found the ring empty at ReadStart and is at SemSignal.Wait()
ReaderParked == rpc = "rWait"

\* C6: the compare-and-swap of GetReadBuffer that hands out a lease never finds
\* ReadStart equal to WriteEnd; when the reader is parked after it found the ring
\* empty and WriteEnd has since advanced, a token is on SemSignal or the writer is
\* at the post that follows that advance; and, both threads scheduled fairly,
\* the parked reader is then given the published block.
C6_EmptyRingAndWakeUp ==
    /\ []((rpc = "rCAS" /\ ReadStart = rIdx) => ReadStart # WriteEnd)
    /\ []((ReaderParked /\ ReadStart # WriteEnd)
            => (SemSignal > 0 \/ (wpc = "wPost" /\ wIdx = ReadStart)))
    /\ \A k \in 1 .. MaxWrites :
          (ReaderParked /\ Len(delivered) = k - 1 /\ Len(published) >= k)
             ~> (Len(delivered) >= k /\ delivered[k] = published[k])

\* C6 happens: the reader is parked on the empty test it made before the writer
\* advanced WriteEnd, and the writer's post is on SemSignal
C6_Witness ==
    /\ ReaderParked
    /\ rIdx = ReadStart /\ ReadStart # WriteEnd
    /\ SemSignal > 0
    /\ wpc = "idle" /\ wRet.op = "SendWriteBuffer"

\* the pointers, the DoneRead and DoneWrite flags and the semaphores are as before
RingUntouched ==
    /\ UNCHANGED <<ring, sems>>
    /\ \A b \in Blocks : /\ blocks'[b].DoneRead = blocks[b].DoneRead
                         /\ blocks'[b].DoneWrite = blocks[b].DoneWrite

WriterOps == {"GetWriteBuffer", "SendWriteBuffer", "Write", "ReadFrom"}
ReaderOps == {"GetReadBuffer", "SendReadBuffer", "Read", "WriteTo"}

\* C8: on an endpoint whose closed flag is set, every call of GetWriteBuffer,
\* SendWriteBuffer, Write and ReadFrom (writer) and of GetReadBuffer,
\* SendReadBuffer, Read and WriteTo (reader) returns ClosedPipe at once and
\* leaves the ring pointers, the DoneRead and DoneWrite flags and the semaphores
\* as they were.
C8_ClosedPipe ==
    [][/\ (closed["w"] # 0 /\ wvars' # wvars)
            => /\ wpc' = "idle"
               /\ wRet'.op \in WriterOps /\ wRet'.err = "ClosedPipe"
               /\ RingUntouched
       /\ (closed["r"] # 0 /\ rvars' # rvars)
            => /\ rpc' = "idle"
               /\ rRet'.op \in ReaderOps /\ rRet'.err = "ClosedPipe"
               /\ RingUntouched]_vars

\* C8 happens: the writer endpoint was closed with a lease outstanding, after a
\* block went round the ring, and the SendWriteBuffer that followed returned
\* ClosedPipe
C8_Witness ==
    /\ closed["w"] = 1
    /\ wRet.op = "SendWriteBuffer" /\ wRet.err = "ClosedPipe"
    /\ wLeases # {}
    /\ nRel >= 1

\* every thread that called Close on endpoint e has returned
ClosersDone(e) == cpc[e].idle = 0 /\ cpc[e].swapped = 0

\* C9: of the Close calls on one endpoint exactly one swaps closed from 0 to 1
\* and unmaps, once; every other call returns nil and changes nothing; and
\* closed, once 1, stays 1.
C9_CloseIdempotent ==
    /\ [](\A e \in {"w", "r"} :
            /\ closed[e] \in {0, 1}
            /\ cpc[e].swapped + cpc[e].unmapped = closed[e]
            /\ unmaps[e] = cpc[e].unmapped
            /\ cpc[e].nil > 0 => closed[e] = 1
            /\ (ClosersDone(e) /\ closed[e] = 1)
                  => (unmaps[e] = 1 /\ cpc[e].nil = NumClosers - 1))
    /\ [][\A e \in {"w", "r"} :
            /\ closed[e] = 1 => closed'[e] = 1
            /\ cpc'[e].nil # cpc[e].nil
                  => UNCHANGED <<shared, closed, unmaps, wvars, rvars>>]_vars

\* C9 happens: a concurrent Close has returned nil while the call that swapped
\* the flag has not unmapped yet
C9_Witness ==
    \E e \in {"w", "r"} : cpc[e].nil >= 1 /\ cpc[e].swapped = 1 /\ unmaps[e] = 0

\* C10: on an open endpoint, SendWriteBuffer given a read lease returns
\* (0, InvalidBuffer) and SendReadBuffer given a write lease returns
\* InvalidBuffer, and neither changes the pointers, the semaphores or any field
\* of any block.
C10_InvalidBuffer ==
    [][/\ (closed["w"] = 0 /\ wSendWrong)
            => /\ wpc' = "idle"
               /\ wRet' = Ret("SendWriteBuffer", "InvalidBuffer", 0, NoBlock)
               /\ UNCHANGED shared
       /\ (closed["r"] = 0 /\ rSendWrong)
            => /\ rpc' = "idle"
               /\ rRet' = Ret("SendReadBuffer", "InvalidBuffer", 0, NoBlock)
               /\ UNCHANGED shared]_vars

\* C10 happens: both endpoints are open, each was handed a lease of the wrong
\* direction and returned InvalidBuffer, while the writer's client holds a lease
C10_Witness ==
    /\ closed["w"] = 0 /\ closed["r"] = 0
    /\ wRet.err = "InvalidBuffer" /\ rRet.err = "InvalidBuffer"
    /\ wLeases # {}

\* C11: while WriteStart holds the corrupt value BlockCount + 1 (it holds it from
\* the peer's store on: no compare-and-swap of the writer matches it), what a
\* GetReadBuffer call returns is InvalidSharedMemory, whatever the other
\* pointers hold.
C11_CorruptWriteStart ==
    (WriteStart = BlockCount + 1 /\ rRet.op = "GetReadBuffer")
        => rRet.err = "InvalidSharedMemory"

\* the bytes of a payload of plen bytes that fit a block
Fits(plen) == IF plen < BlockSize THEN plen ELSE BlockSize

\* C12: the step of Write(p) that fills its block leaves the block with Size
\* min(len(p), BlockSize), the first min(len(p), BlockSize) bytes of p as payload
\* and the EOF bit set, and n = min(len(p), BlockSize); Write returns that n with
\* a nil error; when Write has returned, every block it acquired is published,
\* one for each Write; and every Read that consumed such a block returned EOF.
C12_WriteOneBlock ==
    /\ [][\A plen \in 0 .. (BlockSize + 1) :
            wFillWith(plen)
               => LET blk == blocks'[wBuf.block]
                  IN  /\ blk.Size = Fits(plen)
                      /\ SubSeq(blk.Data, 1, Fits(plen)) = Fresh(nextByte, Fits(plen))
                      /\ HasEof(blk.Flags)
                      /\ wN' = Fits(plen)]_vars
    /\ [][(wop = "Write" /\ wpc' = "idle") => wRet' = Ret("Write", "nil", wN, NoBlock)]_vars
    /\ [](wpc = "idle" => (Len(published) = nAcq /\ nAcq = Len(srcLog)))
    /\ [](\A k \in 1 .. Len(eofLog) : eofLog[k])
    /\ [](rRet.op = "Read" => rRet.err = "EOF")

\* C12 happens: a Write has filled a block to its capacity and returned, and the
\* Read that consumed a block of an earlier Write returned its bytes and EOF
C12_Witness ==
    /\ wRet = Ret("Write", "nil", BlockSize, NoBlock)
    /\ rRet = Ret("Read", "EOF", BlockSize, NoBlock)
    /\ Len(srcLog) >= 2
    /\ Len(eofLog) >= 1

\* the r.Read calls so far that ended a ReadFrom: they returned EOF or an error
SourceEnds == {k \in 1 .. Len(srcLog) : srcLog[k] # "nil"}

\* C13: the k-th block a Read consumed had the EOF bit exactly when the r.Read
\* that filled the k-th block of ReadFrom returned EOF, also on a block that had
\* the EOF bit in an earlier use; a Read returned EOF exactly on such a block;
\* and when ReadFrom has returned, the last r.Read returned EOF or an error,
\* ReadFrom returned nil for EOF and the error otherwise, every block it
\* acquired is published, and (for the first ReadFrom) n is the number of bytes
\* read from r.
C13_ReadFromEof ==
    /\ \A k \in 1 .. Len(eofLog) : eofLog[k] = (srcLog[k] = "EOF")
    /\ (rpc = "idle" /\ rRet.op = "Read")
          => /\ rRet.err \in {"nil", "EOF"}
             /\ (rRet.err = "EOF") = eofLog[Len(eofLog)]
    /\ (wpc = "idle" /\ wRet.op = "ReadFrom")
          => /\ srcLog # <<>>
             /\ srcLog[Len(srcLog)] # "nil"
             /\ wRet.err = (IF srcLog[Len(srcLog)] = "EOF" THEN "nil"
                                                         ELSE srcLog[Len(srcLog)])
             /\ Len(published) = nAcq
             /\ Cardinality(SourceEnds) = 1 => wRet.n = Len(writeLog)

\* C13 happens: ReadFrom published the first block with the EOF bit, a later
\* ReadFrom filled the same block again without EOF, and Read consumed both
C13_Witness ==
    /\ Len(eofLog) > BlockCount
    /\ eofLog[1] /\ ~eofLog[1 + BlockCount]
    /\ wRet.op = "ReadFrom"
    /\ rRet = Ret("Read", "nil", 0, NoBlock)

\* no buffer operation is in progress
Quiescent == wpc = "idle" /\ rpc = "idle"

\* C14 as stated: when no buffer operation is in progress the pointers lie in
\* the cyclic order ReadEnd, WriteStart, WriteEnd, ReadStart, the blocks held
\* by the writer are those from WriteStart up to WriteEnd and the blocks held
\* by the reader are those from ReadStart up to ReadEnd.
C14_StatedOrder ==
    Quiescent =>
        /\ Dist(ReadEnd, WriteStart) + Dist(WriteStart, WriteEnd)
             + Dist(WriteEnd, ReadStart) + Dist(ReadStart, ReadEnd) \in {0, BlockCount}
        /\ \A h \in wLeases : InArc(h.block, WriteStart, WriteEnd)
        /\ \A h \in rLeases : InArc(h.block, ReadStart, ReadEnd)

\* C14: when no buffer operation is in progress the pointers lie in the cyclic
\* order ReadEnd, ReadStart, WriteEnd, WriteStart; the blocks from ReadEnd up to
\* ReadStart are the blocks held by the reader (leased or released out of
\* order), those from ReadStart up to WriteEnd are the published blocks not yet
\* handed to the reader, those from WriteEnd up to WriteStart are the blocks
\* held by the writer (leased or released out of order), and the rest, from
\* WriteStart up to ReadEnd, are available to the writer.
C14_CyclicOrder ==
    Quiescent =>
        /\ Dist(ReadEnd, ReadStart) + Dist(ReadStart, WriteEnd)
             + Dist(WriteEnd, WriteStart) + Dist(WriteStart, ReadEnd) \in {0, BlockCount}
        /\ \A b \in Blocks :
              /\ HeldByReader(b) <=> (b \in LeasedBlocks(rLeases) \/ blocks[b].DoneRead = 1)
              /\ HeldByWriter(b) <=> (b \in LeasedBlocks(wLeases) \/ blocks[b].DoneWrite = 1)
        /\ Dist(ReadStart, WriteEnd) = Len(published) - Len(delivered)
        /\ Dist(ReadEnd, WriteStart) = nAcq - nRel

\* C14 happens: with no operation in progress the reader holds a block, the
\* writer holds a block, and a block is available
C14_Witness ==
    /\ Quiescent
    /\ ReadEnd # ReadStart /\ rLeases # {}
    /\ WriteEnd # WriteStart /\ wLeases # {}
    /\ WriteStart # ReadEnd

\* C15: in every state, also in the middle of an operation, the four pointers
\* are block indices, and the steps from ReadEnd to ReadStart, from ReadStart to
\* WriteEnd and from WriteEnd to WriteStart add up to at most BlockCount - 1;
\* each of the three distances is the number of advances the chased pointer
\* is ahead of its chaser, so no pointer has passed the one it chases.
C15_NoPointerPasses ==
    /\ {ReadEnd, ReadStart, WriteEnd, WriteStart} \subseteq Blocks
    /\ Dist(ReadEnd, ReadStart) + Dist(ReadStart, WriteEnd)
         + Dist(WriteEnd, WriteStart) <= BlockCount - 1
    /\ Dist(ReadEnd, ReadStart) = Len(delivered) - nRel
    /\ Dist(ReadStart, WriteEnd) = Len(published) - Len(delivered)
    /\ Dist(WriteEnd, WriteStart) = nAcq - Len(published)

\* C15 happens: both sides are in the middle of an operation while the reader
\* holds a block, a block is readable, and the ring is full
C15_Witness ==
    /\ wpc # "idle" /\ rpc # "idle"
    /\ ReadEnd # ReadStart /\ ReadStart # WriteEnd
    /\ Dist(ReadEnd, WriteStart) = BlockCount - 1

\* the writer found the ring full at WriteStart and is at SemAvail.Wait()
WriterParked == wpc = "wWait"

\* the full test of GetWriteBuffer would fail now
RingHasRoom == BlockNext(WriteStart) # ReadEnd

\* C16: when the writer is parked after it found the ring full and ReadEnd has
\* since advanced, a token is on SemAvail or the reader is at the post that
\* follows that advance; and, both threads scheduled fairly, the parked writer
\* is then given a lease, on every ring size from two blocks up.
C16_WriterWakeUp ==
    /\ []((WriterParked /\ RingHasRoom)
            => (SemAvail > 0 \/ (rpc = "rPost" /\ WakeWriter(rIdx, WriteStart))))
    /\ \A k \in 1 .. MaxWrites :
          (WriterParked /\ nAcq = k - 1 /\ RingHasRoom)
             ~> (nAcq >= k /\ tag[BlockPrev(WriteStart)] = k)

\* C16 happens: on the ring of two blocks the writer is parked on the full test
\* it made before the reader advanced ReadEnd, and the reader's post is on
\* SemAvail
C16_Witness ==
    /\ BlockCount = 2
    /\ WriterParked
    /\ wIdx = WriteStart /\ RingHasRoom
    /\ SemAvail > 0
    /\ rpc = "idle" /\ rRet.op = "SendReadBuffer"

\* C17: WriteEnd advances only in the release loop of SendWriteBuffer, by one
\* block, past the block at WriteEnd, which the writer has released and whose
\* DoneWrite flag the loop has just swapped from 1 to 0; a block with DoneWrite
\* = 1 or under a write lease lies from WriteEnd up to WriteStart, so it is not
\* visible to the reader; when SendWriteBuffer has returned, WriteEnd stands at
\* WriteStart or at a block still under a lease, so it has passed the whole run
\* of finished blocks; and every block outside WriteEnd up to WriteStart has
\* DoneWrite = 0.
C17_CoalescedRelease ==
    /\ [][WriteEnd' # WriteEnd
            => /\ wpc = "wAdv" /\ wIdx = WriteEnd
               /\ WriteEnd' = BlockNext(WriteEnd)
               /\ WriteEnd \notin LeasedBlocks(wLeases)
               /\ blocks[WriteEnd].DoneWrite = 0]_vars
    /\ [](\A b \in Blocks :
             (blocks[b].DoneWrite = 1 \/ b \in LeasedBlocks(wLeases)) => HeldByWriter(b))
    /\ [](wpc = "idle"
             => (WriteEnd = WriteStart \/ WriteEnd \in LeasedBlocks(wLeases)))

\* C17 happens: the release loop is about to advance WriteEnd past a block
\* other than the one this SendWriteBuffer call released
C17_Witness ==
    /\ wpc = "wAdv" /\ wop = "none"
    /\ wIdx = WriteEnd
    /\ wBuf.block # wIdx

\* C18: the tokens posted on SemSignal and not yet consumed are never more than
\* BlockCount, and likewise the tokens on SemAvail.
C18_TokensBounded ==
    /\ SemSignal <= BlockCount
    /\ SemAvail <= BlockCount

\* C19: when ReadFrom has returned a nil error, every block the writer acquired
\* has been published, so a SendWriteBuffer that failed inside ReadFrom made
\* ReadFrom return an error.
C19_NilOnlyIfPublished ==
    (wpc = "idle" /\ wRet.op = "ReadFrom" /\ wRet.err = "nil")
        => (Len(published) = nAcq /\ wLeases = {})

\* the steps of GetWriteBuffer and SendWriteBuffer that follow the computation
\* of block from the loaded index, and those of GetReadBuffer and SendReadBuffer
WriterUsesBlock == wpc \in {"wChk", "wCAS", "wCASDone", "wAdv", "wPost", "outside"}
ReaderUsesBlock == rpc \in {"rChk", "rCAS", "rCASDone", "rAdv", "rPost", "outside"}

\* C20: whatever a corrupt peer stored in the four pointers, an operation that
\* has computed a block from the index it loaded has loaded the index of a
\* slot, one of 0 .. BlockCount - 1.
C20_NoSlotOutside ==
    /\ WriterUsesBlock => wIdx \in Blocks
    /\ ReaderUsesBlock => rIdx \in Blocks

=============================================================================
